---- MODULE Spec2Model ----
(***************************************************************************)
(* md2docx: the two-pass conversion of a Markdown syntax tree into a       *)
(* sequence of document blocks.                                            *)
(*                                                                         *)
(*   pass 1  ImageReferenceCollector  (image_reference_collector.rs)       *)
(*   pass 2  Emitter                  (emitter.rs)                         *)
(*   both driven by MarkdownNodeTraverser::process_node (traverser.rs)     *)
(*                                                                         *)
(* Strings are sequences of one-character strings.  The recursion of       *)
(* process_node is kept on an explicit stack of pending tasks: a handler   *)
(* that visits children replaces its own task by one task per child,       *)
(* followed by a task for the code that runs after its child loop.         *)
(***************************************************************************)
EXTENDS Integers, Sequences, FiniteSets, TLC

VARIABLES
    tree,        \* the syntax tree handed to both passes (read only)
    pc,          \* position in the conversion sequence
    stack,       \* pending tasks of the running pass (top is the head)
    collector,   \* the ImageReferenceCollector
    emitter,     \* the Emitter
    docx,        \* the Docx under construction
    figlog,      \* history: one entry per ref-carrying image seen by pass 1
    textlog,     \* history: one entry per call of Emitter::visit_text
    rs           \* the local variables of one call of check_references

vars == <<tree, pc, stack, collector, emitter, docx, figlog, textlog, rs>>

(***************************************************************************)
(* Bounds of the model.                                                    *)
(***************************************************************************)
\* the greatest number of children of the Root of a generated document
MaxBlocks == 2
\* the deepest nesting of List in List in a generated document
MaxListDepth == 3
\* the greatest number of pieces a text given to check_references is built of
MaxPieces == 3

(***************************************************************************)
(* Program constants.                                                      *)
(***************************************************************************)
PPI == 220
EMUS_PER_INCH == 914400

(***************************************************************************)
(* Sequences and characters.                                               *)
(***************************************************************************)
Min(S) == CHOOSE x \in S : \A y \in S : x <= y

\* char::is_whitespace, restricted to the characters of the model
Whitespace == {" ", "\n", "\t"}

DigitChar == <<"0", "1", "2", "3", "4", "5", "6", "7", "8", "9">>

\* the Display of an unsigned integer: its decimal digits
RECURSIVE Digits(_)
Digits(n) ==
    IF n < 10 THEN <<DigitChar[n + 1]>>
    ELSE Digits(n \div 10) \o <<DigitChar[(n % 10) + 1]>>

\* s contains t as a contiguous substring
Contains(s, t) ==
    \E i \in 0..(Len(s) - Len(t)) : SubSeq(s, i + 1, i + Len(t)) = t

RECURSIVE Concat(_)
Concat(ss) == IF ss = <<>> THEN <<>> ELSE Head(ss) \o Concat(Tail(ss))

(***************************************************************************)
(* REF_REGEX and extract_ref.  The pattern is: the literal "{ref:", any    *)
(* whitespace, a captured group of any characters other than "}", any      *)
(* whitespace, the literal "}".                                            *)
(* Offsets are 0-based byte offsets as in the source; a range is           *)
(* start..end with end exclusive.                                          *)
(***************************************************************************)
REF_OPEN == <<"{", "r", "e", "f", ":">>

\* the literal prefix of the pattern occurs at offset p
HasOpenAt(s, p) ==
    /\ p + Len(REF_OPEN) <= Len(s)
    /\ SubSeq(s, p + 1, p + Len(REF_OPEN)) = REF_OPEN

\* offsets of the "}" characters at or after offset p
ClosesFrom(s, p) == {q \in p..(Len(s) - 1) : s[q + 1] = "}"}

\* the pattern matches at offset p: the prefix, then anything up to the
\* first "}" (which the group cannot cross)
MatchAt(s, p) == HasOpenAt(s, p) /\ ClosesFrom(s, p + Len(REF_OPEN)) # {}

NoMatch == [found |-> FALSE, start |-> 0, end |-> 0]

\* Regex::find_at(s, start): the leftmost match beginning at or after start
FindAt(s, start) ==
    LET cands == {p \in start..(Len(s) - 1) : MatchAt(s, p)}
    IN  IF cands = {} THEN NoMatch
        ELSE LET p == Min(cands)
                 q == Min(ClosesFrom(s, p + Len(REF_OPEN)))
             IN  [found |-> TRUE, start |-> p, end |-> q + 1]

\* capture group 1 of a match that starts at offset p: the first
\* whitespace part is greedy and takes all the leading whitespace; the
\* group is greedy and takes everything up to the first "}", trailing
\* whitespace included; the second whitespace part is left with nothing
Group1(s, p) ==
    LET q == Min(ClosesFrom(s, p + Len(REF_OPEN)))
        g == Min({i \in (p + Len(REF_OPEN))..q : s[i + 1] \notin Whitespace})
    IN  SubSeq(s, g + 1, q)

None == [some |-> FALSE, key |-> <<>>]
Some(k) == [some |-> TRUE, key |-> k]

\* extract_ref(text): group 1 of the first match in text
extract_ref(text) ==
    LET m == FindAt(text, 0)
    IN  IF m.found THEN Some(Group1(text, m.start)) ELSE None

(***************************************************************************)
(* Emitter::check_references.  RefState holds the locals of one call:      *)
(* text (the argument), result, matched_any, start_idx; done is set when   *)
(* find_at returns None and the while loop is left; iters counts the       *)
(* iterations of the loop.                                                 *)
(***************************************************************************)
FigureWord == <<"F", "i", "g", "u", "r", "e", " ">>

\* format!("Figure {}", figure_number)
FigureText(n) == FigureWord \o Digits(n)

\* self.image_references.get(reference_key)
LookupReference(refs, key) ==
    IF key \in DOMAIN refs THEN [some |-> TRUE, n |-> refs[key]]
    ELSE [some |-> FALSE, n |-> 0]

\* result.replace_range(match_range, &replacement)
replace_range(s, m, replacement) ==
    SubSeq(s, 1, m.start) \o replacement \o SubSeq(s, m.end + 1, Len(s))

\* a cursor put back to where the inserted text begins
CursorAfterHitRescan(m, replacement) == m.start

\* a cursor taken from the range of the token that was replaced
CursorAfterHitStale(m, replacement) == m.end

\* a cursor one past the end of the token that was left in place
CursorAfterMissSkip(m) == m.end + 1

\* start_idx after a replacement: the end of the inserted text
CursorAfterHit(m, replacement) == m.start + Len(replacement)

\* start_idx when the token is left in place: the end of the token
CursorAfterMiss(m) == m.end

RefStart(text) ==
    [text |-> text, result |-> text, matched_any |-> FALSE, start_idx |-> 0,
     done |-> FALSE, iters |-> 0]

\* one evaluation of the loop condition and, on a match, of the loop body
RefLoop(st, refs) ==
    LET m == FindAt(st.result, st.start_idx)
    IN  IF ~m.found THEN [st EXCEPT !.done = TRUE]
        ELSE
          LET reference_text == SubSeq(st.result, m.start + 1, m.end)
              k == extract_ref(reference_text)
              hit == IF k.some THEN LookupReference(refs, k.key)
                     ELSE [some |-> FALSE, n |-> 0]
              replacement == FigureText(hit.n)
          IN  IF hit.some
              THEN [st EXCEPT !.matched_any = TRUE,
                              !.iters = @ + 1,
                              !.result = replace_range(st.result, m, replacement),
                              !.start_idx = CursorAfterHit(m, replacement)]
              ELSE [st EXCEPT !.matched_any = TRUE,
                              !.iters = @ + 1,
                              !.start_idx = CursorAfterMiss(m)]

\* the value check_references returns once the loop is left
RefReturn(st) == IF ~st.matched_any THEN st.text ELSE st.result

RECURSIVE RefRun(_, _)
RefRun(st, refs) == IF st.done THEN st ELSE RefRun(RefLoop(st, refs), refs)

check_references(text, refs) == RefReturn(RefRun(RefStart(text), refs))

(***************************************************************************)
(* Emitter::visit_text's whitespace handling.                              *)
(***************************************************************************)
\* text.value.replace("\n", " ")
ReplaceNewlines(s) == [i \in 1..Len(s) |-> IF s[i] = "\n" THEN " " ELSE s[i]]

\* str::split_whitespace: the maximal runs of non-whitespace characters
RECURSIVE split_whitespace(_)
split_whitespace(s) ==
    IF s = <<>> THEN <<>>
    ELSE IF Head(s) \in Whitespace THEN split_whitespace(Tail(s))
    ELSE LET stops == {i \in 1..Len(s) : s[i] \in Whitespace}
             n == IF stops = {} THEN Len(s) ELSE Min(stops) - 1
         IN  <<SubSeq(s, 1, n)>> \o split_whitespace(SubSeq(s, n + 1, Len(s)))

\* [&str]::join(" ")
RECURSIVE join_space(_)
join_space(ws) ==
    IF ws = <<>> THEN <<>>
    ELSE IF Len(ws) = 1 THEN Head(ws)
    ELSE Head(ws) \o <<" ">> \o join_space(Tail(ws))

\* with_spaces.split_whitespace().collect::<Vec<&str>>().join(" ")
NormalizeText(value) == join_space(split_whitespace(ReplaceNewlines(value)))

(***************************************************************************)
(* Strings that may hold JSON.  A string is either raw (its characters     *)
(* are given) or the compact JSON text of an object (its fields are        *)
(* given, and JsonChars gives its characters).  A JSON value is null, a    *)
(* string or a number num/den.                                             *)
(***************************************************************************)
JNull == [t |-> "null", s |-> <<>>, num |-> 0, den |-> 1]
JStr(s) == [t |-> "str", s |-> s, num |-> 0, den |-> 1]
JNum(n, d) == [t |-> "num", s |-> <<>>, num |-> n, den |-> d]

NoObj == [f \in {} |-> JNull]
Raw(chars) == [form |-> "raw", chars |-> chars, obj |-> NoObj]
Json(obj) == [form |-> "json", chars |-> <<>>, obj |-> obj]

FieldChars(f) ==
    CASE f = "scale" -> <<"s", "c", "a", "l", "e">>
      [] f = "caption" -> <<"c", "a", "p", "t", "i", "o", "n">>
      [] f = "ref" -> <<"r", "e", "f">>

JsonFieldOrder == <<"scale", "caption", "ref">>

ValueChars(v) ==
    CASE v.t = "null" -> <<"n", "u", "l", "l">>
      [] v.t = "str" -> <<"\"">> \o v.s \o <<"\"">>
      [] v.t = "num" ->
            IF v.den = 1 THEN Digits(v.num)
            ELSE Digits(v.num \div v.den) \o <<".">>
                 \o Digits(((v.num % v.den) * 10) \div v.den)

RECURSIVE MemberChars(_, _, _)
MemberChars(obj, i, first) ==
    IF i > Len(JsonFieldOrder) THEN <<>>
    ELSE LET f == JsonFieldOrder[i]
         IN  IF f \in DOMAIN obj
             THEN (IF first THEN <<>> ELSE <<",">>)
                  \o <<"\"">> \o FieldChars(f) \o <<"\"", ":">> \o ValueChars(obj[f])
                  \o MemberChars(obj, i + 1, FALSE)
             ELSE MemberChars(obj, i + 1, first)

JsonChars(obj) == <<"{">> \o MemberChars(obj, 1, TRUE) \o <<"}">>

\* the characters of a string
Chars(str) == IF str.form = "raw" THEN str.chars ELSE JsonChars(str.obj)

\* str::is_empty
is_empty(str) == Chars(str) = <<>>

(***************************************************************************)
(* ImageModifiers and TableMetadata, and their serde_json decoders.        *)
(* The derived Deserialize requires every field that is not an Option:     *)
(* scale for ImageModifiers, caption and ref for TableMetadata.  An        *)
(* Option field may be missing or null.  Unknown fields are ignored.       *)
(***************************************************************************)
NoRef == [some |-> FALSE, key |-> <<>>]

\* impl Default for ImageModifiers
ImageModifiersDefault == [scale |-> [num |-> 1, den |-> 1], ref |-> NoRef]

\* serde_json::from_str::<ImageModifiers>(alt)
ImageModifiersFromStr(alt) ==
    IF /\ alt.form = "json"
       /\ "scale" \in DOMAIN alt.obj
       /\ alt.obj["scale"].t = "num"
       /\ ("ref" \in DOMAIN alt.obj => alt.obj["ref"].t \in {"null", "str"})
    THEN [ok |-> TRUE,
          val |-> [scale |-> [num |-> alt.obj["scale"].num, den |-> alt.obj["scale"].den],
                   ref |-> IF "ref" \in DOMAIN alt.obj /\ alt.obj["ref"].t = "str"
                           THEN [some |-> TRUE, key |-> alt.obj["ref"].s]
                           ELSE NoRef]]
    ELSE [ok |-> FALSE, val |-> ImageModifiersDefault]

\* serde_json::from_str(&image.alt).unwrap_or(ImageModifiers::default())
DecodeImageModifiers(alt) ==
    LET r == ImageModifiersFromStr(alt)
    IN  IF r.ok THEN r.val ELSE ImageModifiersDefault

\* serde_json::from_str::<TableMetadata>(&text.value)
TableMetadataFromStr(value) ==
    IF /\ value.form = "json"
       /\ "caption" \in DOMAIN value.obj
       /\ value.obj["caption"].t = "str"
       /\ "ref" \in DOMAIN value.obj
       /\ value.obj["ref"].t = "str"
    THEN [ok |-> TRUE, caption |-> value.obj["caption"].s, ref |-> value.obj["ref"].s]
    ELSE [ok |-> FALSE, caption |-> <<>>, ref |-> <<>>]

(***************************************************************************)
(* markdown::mdast::Node.  Every node is a record of the same shape; a     *)
(* field a variant does not have holds a default.  ListItem's checked      *)
(* and spread fields only select debug log lines and are left out.         *)
(***************************************************************************)
NoStr == Raw(<<>>)
NoTitle == [some |-> FALSE, s |-> NoStr]
SomeTitle(str) == [some |-> TRUE, s |-> str]

Node(kind, children) ==
    [kind |-> kind, children |-> children, value |-> NoStr, alt |-> NoStr,
     url |-> <<>>, title |-> NoTitle, depth |-> 0, ordered |-> FALSE]

Root(children) == Node("Root", children)
Paragraph(children) == Node("Paragraph", children)
Strong(children) == Node("Strong", children)
Emphasis(children) == Node("Emphasis", children)
ListItem(children) == Node("ListItem", children)
Blockquote(children) == Node("Blockquote", children)
Delete(children) == Node("Delete", children)
Table(children) == Node("Table", children)
TableRow(children) == Node("TableRow", children)
TableCell(children) == Node("TableCell", children)
InlineCode == Node("InlineCode", <<>>)
List(ordered, children) == [Node("List", children) EXCEPT !.ordered = ordered]
Heading(depth, children) == [Node("Heading", children) EXCEPT !.depth = depth]
TextStr(str) == [Node("Text", <<>>) EXCEPT !.value = str]
Text(chars) == TextStr(Raw(chars))
Image(alt, url, title) ==
    [Node("Image", <<>>) EXCEPT !.alt = alt, !.url = url, !.title = title]

NoNode == Node("None", <<>>)

(***************************************************************************)
(* MarkdownNodeTraverser: which default visitor a variant gets.  The       *)
(* defaults of Root, Paragraph, Strong, Emphasis, List, ListItem,          *)
(* Blockquote, Link, Table and TableRow loop over the children; every      *)
(* other default returns its output untouched, also for variants that own  *)
(* children (Heading, Delete, TableCell, FootnoteDefinition, ...).         *)
(***************************************************************************)
DefaultRecursing ==
    {"Root", "Paragraph", "Strong", "Emphasis", "List", "ListItem",
     "Blockquote", "Link", "Table", "TableRow"}

\* the visitors ImageReferenceCollector overrides
CollectorOverrides == {"Image", "Table"}

\* the visitors Emitter overrides
EmitterOverrides ==
    {"Heading", "Image", "Text", "Strong", "Emphasis", "List", "ListItem",
     "Paragraph", "Table", "TableRow", "TableCell"}

\* a pending call process_node(node, output)
NodeTask(n) == [op |-> "node", node |-> n]
\* the pending rest of a handler, after its loop over the children
EndTask(op) == [op |-> op, node |-> NoNode]

\* for child in children { output = self.process_child(child, output) }
ChildTasks(children) == [i \in 1..Len(children) |-> NodeTask(children[i])]

TopIs(kind) ==
    /\ stack # <<>>
    /\ Head(stack).op = "node"
    /\ Head(stack).node.kind = kind

TopIsEnd(op) == stack # <<>> /\ Head(stack).op = op

(***************************************************************************)
(* HashMap<String, usize>.                                                 *)
(***************************************************************************)
EmptyMap == [k \in {} |-> 0]

\* HashMap::insert: the value of an existing key is replaced
MapInsert(m, k, v) == [x \in DOMAIN m \cup {k} |-> IF x = k THEN v ELSE m[x]]

(***************************************************************************)
(* StackCounter.                                                           *)
(***************************************************************************)
\* StackCounter::new
StackCounterNew == 0
\* StackCounter::push
StackCounterPush(value_) == value_ + 1
\* a flag in place of a counter: any pop clears it
StackCounterPopClear(value_) == 0
\* StackCounter::pop
StackCounterPop(value_) == IF value_ > 0 THEN value_ - 1 ELSE value_
\* a test that holds at the depth 1 only
StackCounterSetAtOne(value_) == value_ = 1
\* StackCounter::set
StackCounterSet(value_) == value_ > 0

(***************************************************************************)
(* docx_rs values: runs, paragraphs, the document.                         *)
(***************************************************************************)
\* Run::new().add_text(text), with size 0 for "no size set"
TextRun(text) ==
    [kind |-> "text", text |-> text, bold |-> FALSE, italic |-> FALSE,
     size |-> 0, width |-> 0, height |-> 0]

\* Run::new().add_image(Pic::new(&buffer).size(w, h))
ImageRun(w, h) ==
    [kind |-> "image", text |-> <<>>, bold |-> FALSE, italic |-> FALSE,
     size |-> 0, width |-> w, height |-> h]

\* docx_rs::Paragraph::new(), which is also Paragraph::default()
NewParagraph ==
    [runs |-> <<>>, align |-> "None", indent |-> "None",
     has_numbering |-> FALSE, numbering_id |-> 0, indent_level |-> 0]

add_run(p, run) == [p EXCEPT !.runs = Append(@, run)]

\* Docx::add_paragraph
add_paragraph(d, p) == [d EXCEPT !.blocks = Append(@, p)]

\* Docx::new()
NewDocx == [abstract_numberings |-> <<>>, numberings |-> <<>>, blocks |-> <<>>]

(***************************************************************************)
(* Emitter::initialize_numbering: bullet list (id 1) and numbered list     *)
(* (id 2), each with the levels 0 and 1.                                   *)
(***************************************************************************)
NumberingLevel(level, format, left) ==
    [level |-> level, format |-> format, left |-> left]

BulletNumbering ==
    [id |-> 1, levels |-> <<NumberingLevel(0, "bullet", 720),
                            NumberingLevel(1, "bullet", 1440)>>]

DecimalNumbering ==
    [id |-> 2, levels |-> <<NumberingLevel(0, "decimal", 720),
                            NumberingLevel(1, "lowerLetter", 1440)>>]

initialize_numbering(d) ==
    [d EXCEPT !.abstract_numberings = @ \o <<BulletNumbering, DecimalNumbering>>,
              !.numberings = @ \o <<[id |-> 1, abstract |-> 1],
                                    [id |-> 2, abstract |-> 2]>>]

\* the levels an abstract numbering of the document defines
DefinedLevels(d, id) ==
    UNION {{a.levels[i].level : i \in 1..Len(a.levels)} :
           a \in {d.abstract_numberings[j] : j \in
                    {j \in 1..Len(d.abstract_numberings) :
                        d.abstract_numberings[j].id = id}}}

(***************************************************************************)
(* Emitter::add_document_metadata.                                         *)
(***************************************************************************)
NoMetadata == [some |-> FALSE, title |-> None, author |-> None, affiliation |-> None]

CenteredRun(run) == [NewParagraph EXCEPT !.runs = <<run>>, !.align = "Center"]

add_document_metadata(metadata, d) ==
    IF ~metadata.some THEN d
    ELSE
      LET title_run == [TextRun(metadata.title.key) EXCEPT
                            !.size = 40, !.bold = metadata.title.key # <<>>]
          d1 == IF metadata.title.some
                THEN add_paragraph(d, CenteredRun(title_run)) ELSE d
          d2 == IF metadata.author.some
                THEN add_paragraph(d1, CenteredRun(
                        [TextRun(metadata.author.key) EXCEPT !.size = 24, !.italic = TRUE]))
                ELSE d1
          d3 == IF metadata.author.some /\ metadata.affiliation.some
                THEN add_paragraph(d2, CenteredRun(
                        [TextRun(metadata.affiliation.key) EXCEPT !.size = 24, !.italic = TRUE]))
                ELSE d2
      IN  add_paragraph(d3, NewParagraph)

(***************************************************************************)
(* get_image_dimensions.  The product EMUS_PER_INCH * dim is a u32         *)
(* product: it overflows above u32::MAX, which panics in a build with      *)
(* overflow checks and wraps modulo 2^32 in one without.  Values are kept  *)
(* in limbs of 12 bits so that no intermediate result leaves the range of  *)
(* the model checker's integers.                                           *)
(***************************************************************************)
Limb == 64 * 64

\* EMUS_PER_INCH * dim / PPI for one axis: whether the product overflows
\* 32 bits, and the quotient of the wrapped product
EmuOfPixels(dim) ==
    LET a0 == EMUS_PER_INCH % Limb
        a1 == EMUS_PER_INCH \div Limb
        d0 == dim % Limb
        d1 == (dim \div Limb) % Limb
        d2 == dim \div (Limb * Limb)
        c0 == a0 * d0
        k1 == a0 * d1 + a1 * d0 + (c0 \div Limb)
        k2 == a0 * d2 + a1 * d1 + (k1 \div Limb)
        k3 == a1 * d2 + (k2 \div Limb)
        l0 == c0 % Limb
        l1 == k1 % Limb
        l2 == k2 % Limb
        top == (l2 % 256) * Limb + l1
        rest == (top % PPI) * Limb + l0
    IN  [overflow |-> (l2 \div 256) > 0 \/ k3 > 0,
         value |-> (top \div PPI) * Limb + (rest \div PPI)]

\* (dim as f64 * res.scale) as u32, for a scale num/den >= 0
ScaleDim(dim, scale) == (dim * scale.num) \div scale.den

(***************************************************************************)
(* The files the image urls name, as the conversion finds them.            *)
(***************************************************************************)
UrlOk == <<"o", "k">>
UrlBig == <<"b", "i", "g">>
UrlMissing == <<"n", "o">>
UrlLocked == <<"l", "o", "c", "k">>
UrlBad == <<"b", "a", "d">>

NoFile == [exists |-> FALSE, readable |-> FALSE, decodable |-> FALSE,
           width |-> 0, height |-> 0]

\* img_path.exists(), std::fs::read and image::io::Reader::into_dimensions
FileAt(url) ==
    CASE url = UrlOk -> [exists |-> TRUE, readable |-> TRUE, decodable |-> TRUE,
                         width |-> 100, height |-> 50]
      [] url = UrlBig -> [exists |-> TRUE, readable |-> TRUE, decodable |-> TRUE,
                          width |-> 5000, height |-> 10]
      [] url = UrlLocked -> [NoFile EXCEPT !.exists = TRUE]
      [] url = UrlBad -> [NoFile EXCEPT !.exists = TRUE, !.readable = TRUE]
      [] OTHER -> NoFile

(***************************************************************************)
(* Emitter::handle_image.  The result is the set of outcomes the call can  *)
(* have: a new document, or a panic (the unwrap of a failed                *)
(* get_image_dimensions, or an overflowing product in a build with         *)
(* overflow checks).                                                       *)
(***************************************************************************)
ImagePrefix == <<"[", "I", "m", "a", "g", "e", ":", " ">>
NotFoundSuffix == <<" ", "(", "n", "o", "t", " ", "f", "o", "u", "n", "d", ")", "]">>
NotReadSuffix ==
    <<" ", "(", "c", "o", "u", "l", "d", " ", "n", "o", "t", " ", "r", "e", "a", "d",
      " ", "f", "i", "l", "e", ")", "]">>

\* a centered paragraph of one italic text run
CenteredItalic(text) == CenteredRun([TextRun(text) EXCEPT !.italic = TRUE])

\* the caption text of an image that was read
CaptionText(alt, title, figure_number) ==
    LET display_title == IF title.some THEN Chars(title.s) ELSE Chars(alt)
    IN  IF display_title # <<>>
        THEN FigureText(figure_number) \o <<":", " ">> \o display_title
        ELSE FigureText(figure_number)

Returned(d) == [panic |-> FALSE, docx |-> d]
Panicked(d) == [panic |-> TRUE, docx |-> d]

handle_image(base, d, url, alt, title, figure_number) ==
    IF ~base.some
    THEN {Returned(add_paragraph(d, CenteredItalic(ImagePrefix \o url \o <<"]">>)))}
    ELSE
      LET file == FileAt(url)
          img_path == base.key \o <<"/">> \o url
          res == DecodeImageModifiers(alt)
          w == EmuOfPixels(file.width)
          h == EmuOfPixels(file.height)
          pic == ImageRun(ScaleDim(w.value, res.scale), ScaleDim(h.value, res.scale))
          shown == add_paragraph(add_paragraph(d, CenteredRun(pic)),
                                 CenteredItalic(CaptionText(alt, title, figure_number)))
      IN  IF ~file.exists
          THEN {Returned(add_paragraph(d,
                    CenteredItalic(ImagePrefix \o url \o NotFoundSuffix)))}
          ELSE IF ~file.readable
          THEN {Returned(add_paragraph(d,
                    CenteredItalic(ImagePrefix \o img_path \o NotReadSuffix)))}
          ELSE IF ~file.decodable
          THEN {Panicked(d)}
          ELSE IF w.overflow \/ h.overflow
          THEN {Panicked(d), Returned(shown)}
          ELSE {Returned(shown)}

(***************************************************************************)
(* The two traversers.                                                     *)
(***************************************************************************)
\* ImageReferenceCollector::default()
NewCollector ==
    [image_count |-> 0, image_references |-> EmptyMap,
     table_count |-> 0, table_references |-> EmptyMap]

\* Emitter::new(base_path)
NewEmitter(base) ==
    [strong_state |-> StackCounterNew, base_path |-> base,
     em_state |-> StackCounterNew, list_type |-> <<>>,
     image_references |-> EmptyMap, table |-> <<>>, table_cells |-> <<>>,
     paragraph |-> NewParagraph, paragraph_alignment |-> "None"]

\* the hand-over of the other map of the collector
CollectorIntoTables(c) == c.table_references

\* impl Into<HashMap<String, usize>> for ImageReferenceCollector
CollectorInto(c) == c.image_references

\* ImageReferenceCollector::get
CollectorGet(c, ref) ==
    IF ref \in DOMAIN c.image_references
    THEN Some(FigureText(c.image_references[ref]))
    ELSE IF ref \in DOMAIN c.table_references
    THEN Some(<<"T", "a", "b", "l", "e", " ">> \o Digits(c.table_references[ref]))
    ELSE None

\* std::mem::take(&mut self.paragraph)
TakeParagraph(e) == [e EXCEPT !.paragraph = NewParagraph]

Pop == stack' = Tail(stack)
Replace(tasks) == stack' = tasks \o Tail(stack)

(***************************************************************************)
(* Pass 1: ImageReferenceCollector.                                        *)
(***************************************************************************)
\* a registration in which the last image with a key wins
RegisterFigureOverwrite(c, reference) ==
    LET figure_number == c.image_count + 1
    IN  [c EXCEPT !.image_count = figure_number,
                  !.image_references = MapInsert(@, reference, figure_number)]

\* a registration in which the counter grows for a new key only
RegisterFigureCountNew(c, reference) ==
    IF reference \in DOMAIN c.image_references THEN c
    ELSE [c EXCEPT !.image_count = @ + 1,
                   !.image_references = MapInsert(@, reference, c.image_count + 1)]

\* the registration of a ref-carrying image: the counter always grows, the
\* map only takes a key it does not hold yet
RegisterFigure(c, reference) ==
    LET figure_number == c.image_count + 1
    IN  [c EXCEPT !.image_count = figure_number,
                  !.image_references =
                      IF reference \in DOMAIN @ THEN @
                      ELSE MapInsert(@, reference, figure_number)]

Collector_visit_image ==
    /\ pc = "pass1"
    /\ TopIs("Image")
    /\ LET res == DecodeImageModifiers(Head(stack).node.alt)
       IN  IF res.ref.some
           THEN /\ collector' = RegisterFigure(collector, res.ref.key)
                /\ figlog' = Append(figlog, [key |-> res.ref.key,
                                             number |-> collector.image_count + 1])
           ELSE UNCHANGED <<collector, figlog>>
    /\ Pop
    /\ UNCHANGED <<tree, pc, emitter, docx, textlog, rs>>

\* the ref keys of the cells of a table whose first child is a text that
\* decodes as TableMetadata
TableCellRefs(table) ==
    LET rows == {table.children[i] : i \in 1..Len(table.children)}
        cells == UNION {{r.children[i] : i \in 1..Len(r.children)} :
                        r \in {r \in rows : r.kind = "TableRow"}}
        texts == {c.children[1] :
                    c \in {c \in cells : /\ c.kind = "TableCell"
                                         /\ c.children # <<>>
                                         /\ c.children[1].kind = "Text"}}
    IN  {TableMetadataFromStr(t.value).ref :
            t \in {t \in texts : TableMetadataFromStr(t.value).ok}}

\* a registration that counts a table only if a cell of it carries metadata
RegisterTableIfKeys(c, table) ==
    LET n == c.table_count + 1
        keys == TableCellRefs(table)
    IN  IF keys = {} THEN c
        ELSE [c EXCEPT !.table_count = n,
                       !.table_references =
                           [k \in DOMAIN @ \cup keys |-> IF k \in keys THEN n ELSE @[k]]]

\* every insert of one visit_table stores the same table_count, so the
\* order of the cells does not show in the map
RegisterTable(c, table) ==
    LET n == c.table_count + 1
        keys == TableCellRefs(table)
    IN  [c EXCEPT !.table_count = n,
                  !.table_references =
                      [k \in DOMAIN @ \cup keys |-> IF k \in keys THEN n ELSE @[k]]]

Collector_visit_table ==
    /\ pc = "pass1"
    /\ TopIs("Table")
    /\ collector' = RegisterTable(collector, Head(stack).node)
    /\ Pop
    /\ UNCHANGED <<tree, pc, emitter, docx, figlog, textlog, rs>>

\* a default visitor of a container that returns without a loop
Collector_default_container_return ==
    /\ pc = "pass1"
    /\ stack # <<>>
    /\ Head(stack).node.kind \in DefaultRecursing \ CollectorOverrides
    /\ Pop
    /\ UNCHANGED <<tree, pc, collector, emitter, docx, figlog, textlog, rs>>

\* a default visitor that loops over the children
Collector_default_container ==
    /\ pc = "pass1"
    /\ stack # <<>>
    /\ Head(stack).node.kind \in DefaultRecursing \ CollectorOverrides
    /\ Replace(ChildTasks(Head(stack).node.children))
    /\ UNCHANGED <<tree, pc, collector, emitter, docx, figlog, textlog, rs>>

\* a default visitor that returns its output
Collector_default_leaf ==
    /\ pc = "pass1"
    /\ stack # <<>>
    /\ Head(stack).node.kind \notin DefaultRecursing \cup CollectorOverrides
    /\ Pop
    /\ UNCHANGED <<tree, pc, collector, emitter, docx, figlog, textlog, rs>>

(***************************************************************************)
(* Pass 2: Emitter.                                                        *)
(***************************************************************************)
\* a heading whose text has its whitespace normalized
add_heading_normalized(d, text, level) ==
    LET size == CASE level = 1 -> 36
                  [] level = 2 -> 28
                  [] level = 3 -> 24
                  [] OTHER -> 20
    IN  add_paragraph(d, [NewParagraph EXCEPT
            !.runs = <<[TextRun(NormalizeText(text)) EXCEPT !.size = size,
                                                            !.bold = TRUE]>>])

\* Emitter::add_heading
add_heading(d, text, level) ==
    LET size == CASE level = 1 -> 36
                  [] level = 2 -> 28
                  [] level = 3 -> 24
                  [] OTHER -> 20
    IN  add_paragraph(d, [NewParagraph EXCEPT
            !.runs = <<[TextRun(text) EXCEPT !.size = size, !.bold = TRUE]>>])

\* the text visit_heading collects: the values of the direct Text children
RECURSIVE HeadingText(_)
HeadingText(children) ==
    IF children = <<>> THEN <<>>
    ELSE (IF Head(children).kind = "Text" THEN Chars(Head(children).value) ELSE <<>>)
         \o HeadingText(Tail(children))

Emitter_visit_heading ==
    /\ pc = "pass2"
    /\ TopIs("Heading")
    /\ LET heading == Head(stack).node
       IN  docx' = add_heading(docx, HeadingText(heading.children), heading.depth)
    /\ Pop
    /\ UNCHANGED <<tree, pc, collector, emitter, figlog, textlog, rs>>

\* a figure number that is the size of the map for an image without a ref
FigureNumberNoStep(e, alt) ==
    LET res == DecodeImageModifiers(alt)
    IN  IF res.ref.some
        THEN (IF res.ref.key \in DOMAIN e.image_references
              THEN e.image_references[res.ref.key] ELSE 0)
        ELSE Cardinality(DOMAIN e.image_references)

\* the figure number visit_image passes to handle_image
FigureNumber(e, alt) ==
    LET res == DecodeImageModifiers(alt)
    IN  IF res.ref.some
        THEN (IF res.ref.key \in DOMAIN e.image_references
              THEN e.image_references[res.ref.key] ELSE 0)
        ELSE Cardinality(DOMAIN e.image_references) + 1

Emitter_visit_image ==
    /\ pc = "pass2"
    /\ TopIs("Image")
    /\ LET image == Head(stack).node
       IN  \E out \in handle_image(emitter.base_path, docx, image.url, image.alt,
                                   image.title, FigureNumber(emitter, image.alt)) :
              IF out.panic
              THEN /\ pc' = "panicked"
                   /\ UNCHANGED <<stack, docx>>
              ELSE /\ docx' = out.docx
                   /\ Pop
                   /\ UNCHANGED pc
    /\ UNCHANGED <<tree, collector, emitter, figlog, textlog, rs>>

\* the run visit_text builds from a text value
StyledRun(e, value) ==
    LET normalized_text == NormalizeText(value)
        textval == check_references(normalized_text, e.image_references)
    IN  [TextRun(textval) EXCEPT !.bold = StackCounterSet(e.strong_state),
                                 !.italic = StackCounterSet(e.em_state)]

Emitter_visit_text ==
    /\ pc = "pass2"
    /\ TopIs("Text")
    /\ LET value == Chars(Head(stack).node.value)
           run == StyledRun(emitter, value)
       IN  /\ emitter' = [emitter EXCEPT !.paragraph = add_run(@, run)]
           /\ textlog' = Append(textlog, [src |-> value, run |-> run])
    /\ Pop
    /\ UNCHANGED <<tree, pc, collector, docx, figlog, rs>>

Emitter_visit_strong ==
    /\ pc = "pass2"
    /\ TopIs("Strong")
    /\ emitter' = [emitter EXCEPT !.strong_state = StackCounterPush(@)]
    /\ Replace(ChildTasks(Head(stack).node.children) \o <<EndTask("end_strong")>>)
    /\ UNCHANGED <<tree, pc, collector, docx, figlog, textlog, rs>>

Emitter_end_strong ==
    /\ pc = "pass2"
    /\ TopIsEnd("end_strong")
    /\ emitter' = [emitter EXCEPT !.strong_state = StackCounterPop(@)]
    /\ Pop
    /\ UNCHANGED <<tree, pc, collector, docx, figlog, textlog, rs>>

Emitter_visit_emphasis ==
    /\ pc = "pass2"
    /\ TopIs("Emphasis")
    /\ emitter' = [emitter EXCEPT !.em_state = StackCounterPush(@)]
    /\ Replace(ChildTasks(Head(stack).node.children) \o <<EndTask("end_emphasis")>>)
    /\ UNCHANGED <<tree, pc, collector, docx, figlog, textlog, rs>>

Emitter_end_emphasis ==
    /\ pc = "pass2"
    /\ TopIsEnd("end_emphasis")
    /\ emitter' = [emitter EXCEPT !.em_state = StackCounterPop(@)]
    /\ Pop
    /\ UNCHANGED <<tree, pc, collector, docx, figlog, textlog, rs>>

Emitter_visit_list ==
    /\ pc = "pass2"
    /\ TopIs("List")
    /\ emitter' = [emitter EXCEPT !.list_type =
            Append(@, IF Head(stack).node.ordered THEN "Ordered" ELSE "Unordered")]
    /\ Replace(ChildTasks(Head(stack).node.children)
               \o <<[op |-> "end_list", node |-> Head(stack).node]>>)
    /\ UNCHANGED <<tree, pc, collector, docx, figlog, textlog, rs>>

\* a return of visit_list that leaves the list stack as it is
Emitter_end_list_keep ==
    /\ pc = "pass2"
    /\ TopIsEnd("end_list")
    /\ Pop
    /\ UNCHANGED <<tree, pc, collector, emitter, docx, figlog, textlog, rs>>

\* Vec::pop
Emitter_end_list ==
    /\ pc = "pass2"
    /\ TopIsEnd("end_list")
    /\ emitter' = [emitter EXCEPT !.list_type =
            IF @ = <<>> THEN @ ELSE SubSeq(@, 1, Len(@) - 1)]
    /\ Pop
    /\ UNCHANGED <<tree, pc, collector, docx, figlog, textlog, rs>>

\* the numbering id of a list item: that of the innermost list
NumberingIdOf(list_type) ==
    IF list_type[Len(list_type)] = "Ordered" THEN 2 ELSE 1

\* the indent level of a list item
IndentLevelOf(list_type) == Len(list_type) - 1

\* the tasks of the child loop of visit_list_item: the children of a
\* Paragraph child are processed in its place
RECURSIVE ItemTasks(_)
ItemTasks(children) ==
    IF children = <<>> THEN <<>>
    ELSE (IF Head(children).kind = "Paragraph"
          THEN ChildTasks(Head(children).children)
          ELSE <<NodeTask(Head(children))>>)
         \o ItemTasks(Tail(children))

\* a visit of a list item that processes the children of an item outside
\* of every list as well
Emitter_visit_list_item_through ==
    /\ pc = "pass2"
    /\ TopIs("ListItem")
    /\ IF emitter.list_type = <<>>
       THEN /\ Replace(ItemTasks(Head(stack).node.children))
            /\ UNCHANGED emitter
       ELSE /\ emitter' = [emitter EXCEPT !.paragraph =
                    [NewParagraph EXCEPT
                        !.has_numbering = TRUE,
                        !.numbering_id = NumberingIdOf(emitter.list_type),
                        !.indent_level = IndentLevelOf(emitter.list_type)]]
            /\ Replace(ItemTasks(Head(stack).node.children)
                       \o <<[op |-> "end_list_item", node |-> Head(stack).node]>>)
    /\ UNCHANGED <<tree, pc, collector, docx, figlog, textlog, rs>>

Emitter_visit_list_item ==
    /\ pc = "pass2"
    /\ TopIs("ListItem")
    /\ IF emitter.list_type = <<>>
       THEN /\ Pop
            /\ UNCHANGED emitter
       ELSE /\ emitter' = [emitter EXCEPT !.paragraph =
                    [NewParagraph EXCEPT
                        !.has_numbering = TRUE,
                        !.numbering_id = NumberingIdOf(emitter.list_type),
                        !.indent_level = IndentLevelOf(emitter.list_type)]]
            /\ Replace(ItemTasks(Head(stack).node.children)
                       \o <<[op |-> "end_list_item", node |-> Head(stack).node]>>)
    /\ UNCHANGED <<tree, pc, collector, docx, figlog, textlog, rs>>

Emitter_end_list_item ==
    /\ pc = "pass2"
    /\ TopIsEnd("end_list_item")
    /\ docx' = add_paragraph(docx, emitter.paragraph)
    /\ emitter' = TakeParagraph(emitter)
    /\ Pop
    /\ UNCHANGED <<tree, pc, collector, figlog, textlog, rs>>

Emitter_visit_paragraph ==
    /\ pc = "pass2"
    /\ TopIs("Paragraph")
    /\ emitter' = [emitter EXCEPT
            !.paragraph = [NewParagraph EXCEPT !.indent = "Left720Right720"],
            !.paragraph_alignment = "None"]
    /\ Replace(ChildTasks(Head(stack).node.children) \o <<EndTask("end_paragraph")>>)
    /\ UNCHANGED <<tree, pc, collector, docx, figlog, textlog, rs>>

\* an end of visit_paragraph that adds the paragraph only if it has runs
Emitter_end_paragraph_nonempty ==
    /\ pc = "pass2"
    /\ TopIsEnd("end_paragraph")
    /\ docx' = IF emitter.paragraph.runs = <<>> THEN docx
               ELSE add_paragraph(docx, emitter.paragraph)
    /\ emitter' = TakeParagraph(emitter)
    /\ Pop
    /\ UNCHANGED <<tree, pc, collector, figlog, textlog, rs>>

Emitter_end_paragraph ==
    /\ pc = "pass2"
    /\ TopIsEnd("end_paragraph")
    /\ LET aligned == IF emitter.paragraph_alignment # "None"
                      THEN [emitter.paragraph EXCEPT
                                !.align = emitter.paragraph_alignment]
                      ELSE emitter.paragraph
       IN  docx' = add_paragraph(docx, aligned)
    /\ emitter' = TakeParagraph(emitter)
    /\ Pop
    /\ UNCHANGED <<tree, pc, collector, figlog, textlog, rs>>

Emitter_visit_table ==
    /\ pc = "pass2"
    /\ TopIs("Table")
    /\ emitter' = [emitter EXCEPT !.table = <<>>]
    /\ Replace(ChildTasks(Head(stack).node.children))
    /\ UNCHANGED <<tree, pc, collector, docx, figlog, textlog, rs>>

Emitter_visit_table_row ==
    /\ pc = "pass2"
    /\ TopIs("TableRow")
    /\ emitter' = [emitter EXCEPT !.table_cells = <<>>]
    /\ Replace(ChildTasks(Head(stack).node.children) \o <<EndTask("end_table_row")>>)
    /\ UNCHANGED <<tree, pc, collector, docx, figlog, textlog, rs>>

\* a row is the sequence of its cells
Emitter_end_table_row ==
    /\ pc = "pass2"
    /\ TopIsEnd("end_table_row")
    /\ emitter' = [emitter EXCEPT !.table = Append(@, emitter.table_cells),
                                  !.table_cells = <<>>]
    /\ Pop
    /\ UNCHANGED <<tree, pc, collector, docx, figlog, textlog, rs>>

\* a cell visitor that goes on into the content of the cell
Emitter_visit_table_cell_through ==
    /\ pc = "pass2"
    /\ TopIs("TableCell")
    /\ Replace(ChildTasks(Head(stack).node.children))
    /\ UNCHANGED <<tree, pc, collector, emitter, docx, figlog, textlog, rs>>

Emitter_visit_table_cell ==
    /\ pc = "pass2"
    /\ TopIs("TableCell")
    /\ Pop
    /\ UNCHANGED <<tree, pc, collector, emitter, docx, figlog, textlog, rs>>

Emitter_default_container ==
    /\ pc = "pass2"
    /\ stack # <<>>
    /\ Head(stack).op = "node"
    /\ Head(stack).node.kind \in DefaultRecursing \ EmitterOverrides
    /\ Replace(ChildTasks(Head(stack).node.children))
    /\ UNCHANGED <<tree, pc, collector, emitter, docx, figlog, textlog, rs>>

\* a visitor that gives up on a kind it does not handle
Emitter_default_leaf_abort ==
    /\ pc = "pass2"
    /\ stack # <<>>
    /\ Head(stack).op = "node"
    /\ Head(stack).node.kind \notin DefaultRecursing \cup EmitterOverrides
    /\ pc' = "panicked"
    /\ UNCHANGED <<tree, stack, collector, emitter, docx, figlog, textlog, rs>>

Emitter_default_leaf ==
    /\ pc = "pass2"
    /\ stack # <<>>
    /\ Head(stack).op = "node"
    /\ Head(stack).node.kind \notin DefaultRecursing \cup EmitterOverrides
    /\ Pop
    /\ UNCHANGED <<tree, pc, collector, emitter, docx, figlog, textlog, rs>>

(***************************************************************************)
(* The conversion sequence (parse_to_docx): numbering styles, document     *)
(* metadata, pass 1 over the whole tree, the hand-over of the figure map   *)
(* (Into, then Emitter::set_image_refernces), pass 2 over the whole tree.  *)
(***************************************************************************)
Metadatas ==
    {NoMetadata,
     [some |-> TRUE, title |-> Some(<<"T">>), author |-> Some(<<"A">>),
      affiliation |-> None]}

BasePaths == {None, Some(<<"d">>)}

RefIdle == [refs |-> EmptyMap, st |-> RefStart(<<>>), ret |-> <<>>]

\* a conversion that goes on without the numbering styles
InitializeNumberingSkipped ==
    /\ pc = "start"
    /\ pc' = "metadata"
    /\ UNCHANGED <<tree, stack, collector, emitter, docx, figlog, textlog, rs>>

InitializeNumbering ==
    /\ pc = "start"
    /\ docx' = initialize_numbering(NewDocx)
    /\ pc' = "metadata"
    /\ UNCHANGED <<tree, stack, collector, emitter, figlog, textlog, rs>>

AddDocumentMetadata ==
    /\ pc = "metadata"
    /\ \E metadata \in Metadatas : docx' = add_document_metadata(metadata, docx)
    /\ pc' = "pass1"
    /\ stack' = <<NodeTask(tree)>>
    /\ UNCHANGED <<tree, collector, emitter, figlog, textlog, rs>>

\* pass 1 has returned: emitter.set_image_refernces(collector.into())
set_image_refernces ==
    /\ pc = "pass1"
    /\ stack = <<>>
    /\ emitter' = [emitter EXCEPT !.image_references = CollectorInto(collector)]
    /\ pc' = "pass2"
    /\ stack' = <<NodeTask(tree)>>
    /\ UNCHANGED <<tree, collector, docx, figlog, textlog, rs>>

\* pass 2 has returned
Finish ==
    /\ pc = "pass2"
    /\ stack = <<>>
    /\ pc' = "done"
    /\ UNCHANGED <<tree, stack, collector, emitter, docx, figlog, textlog, rs>>

(***************************************************************************)
(* The documents the conversion is run on.                                 *)
(***************************************************************************)
KeyA == <<"a">>
KeyB == <<"b">>
KeyT == <<"t">>
KeyFigA == <<"f", "i", "g", "-", "a">>

\* "{ref: k}"
Placeholder(k) == REF_OPEN \o <<" ">> \o k \o <<"}">>

Fields2(f1, v1, f2, v2) == [f \in {f1, f2} |-> IF f = f1 THEN v1 ELSE v2]
Fields1(f1, v1) == [f \in {f1} |-> v1]

\* {"scale":n/d,"ref":"k"}
AltScaleRef(n, d, k) == Json(Fields2("scale", JNum(n, d), "ref", JStr(k)))
\* {"ref":"k"}
AltRefOnly(k) == Json(Fields1("ref", JStr(k)))
\* {"scale":n/d}
AltScaleOnly(n, d) == Json(Fields1("scale", JNum(n, d)))
\* {}
AltEmptyObject == Json(NoObj)
\* {"caption":"c","ref":"k"}
CellMetadata(k) == Json(Fields2("caption", JStr(<<"c">>), "ref", JStr(k)))

SeeWord == <<"s", "e", "e", " ">>
AndWord == <<" ", "a", "n", "d", " ">>

ParaRefA == Paragraph(<<Text(SeeWord \o Placeholder(KeyA))>>)
ParaImageA == Paragraph(<<Image(AltScaleRef(1, 1, KeyA), UrlOk, NoTitle)>>)
ParaMixB ==
    Paragraph(<<Text(Placeholder(KeyB)),
                Image(AltScaleRef(1, 2, KeyB), UrlMissing, SomeTitle(Raw(<<"T">>))),
                Text(Placeholder(KeyB) \o AndWord \o Placeholder(KeyA)),
                Image(AltScaleRef(1, 1, KeyA), UrlOk, NoTitle)>>)
ScenarioBText == Paragraph(<<Text(Placeholder(KeyFigA))>>)
ScenarioBImages ==
    Paragraph(<<Image(AltRefOnly(KeyFigA), UrlOk, NoTitle),
                Image(AltEmptyObject, UrlOk, NoTitle)>>)
HeadingTitle == Heading(1, <<Text(<<"T", "i", "t", "l", "e">>)>>)
ScenarioAPara ==
    Paragraph(<<Text(<<"T", "h", "i", "s", " ", "i", "s", " ">>),
                Strong(<<Text(<<"b", "o", "l", "d">>)>>),
                Text(AndWord),
                Emphasis(<<Text(<<"i", "t", "a", "l", "i", "c">>)>>),
                Text(<<".">>)>>)
NestedFormat ==
    Paragraph(<<Strong(<<Strong(<<Text(<<"x">>)>>), Text(<<"y">>)>>),
                Emphasis(<<Strong(<<Text(<<"z">>)>>)>>),
                Text(<<"w">>)>>)
TableT ==
    Table(<<TableRow(<<TableCell(<<TextStr(CellMetadata(KeyT))>>), TableCell(<<>>)>>)>>)
\* a quoted part: a table with cell metadata, a paragraph that refers to
\* it, and a list item that is in no list
Quote ==
    Blockquote(<<TableT,
                 Paragraph(<<Text(Placeholder(KeyT) \o <<"\n">> \o Placeholder(KeyA)),
                             Delete(<<Text(<<"d">>)>>),
                             InlineCode>>),
                 ListItem(<<Paragraph(<<Text(<<"s">>)>>)>>)>>)
ParaFiles ==
    Paragraph(<<Image(Raw(<<"p", "i", "c">>), UrlLocked, SomeTitle(NoStr)),
                Image(AltScaleOnly(2, 1), UrlBig, NoTitle),
                Image(Raw(<<"p", "i", "c">>), UrlOk, SomeTitle(NoStr))>>)
ParaBadFile == Paragraph(<<Image(NoStr, UrlBad, NoTitle)>>)

\* a quoted part with the kinds that neither traverser has a visitor of its
\* own for, between and inside two paragraphs
Unsupported ==
    Blockquote(
        <<Paragraph(<<Text(<<"u">>)>>),
          Node("Code", <<>>), Node("Math", <<>>), Node("Html", <<>>),
          Node("ThematicBreak", <<>>), Node("Definition", <<>>),
          Node("Yaml", <<>>), Node("Toml", <<>>), Node("MdxjsEsm", <<>>),
          Node("MdxFlowExpression", <<>>),
          Node("FootnoteDefinition", <<Paragraph(<<Text(<<"f">>)>>)>>),
          Node("MdxJsxFlowElement", <<Paragraph(<<Text(<<"m">>)>>)>>),
          Paragraph(<<Text(<<"v">>),
                      Node("Break", <<>>), Node("InlineMath", <<>>),
                      Node("FootnoteReference", <<>>), Node("ImageReference", <<>>),
                      Node("MdxTextExpression", <<>>),
                      Node("LinkReference", <<Text(<<"l">>)>>),
                      Node("MdxJsxTextElement", <<Text(<<"j">>)>>),
                      Node("Link", <<Text(<<"k">>)>>),
                      Text(<<"w">>)>>)>>)

\* a list nested d deep; the kinds alternate from the outermost inwards
RECURSIVE NestedList(_, _)
NestedList(d, ordered) ==
    List(ordered,
         <<ListItem(<<Paragraph(<<Text(<<"i">>)>>)>>
                    \o (IF d > 1 THEN <<NestedList(d - 1, ~ordered)>> ELSE <<>>))>>)

\* a numbered list of two items, the first with a bold part, the second
\* with an image that carries a key
OrderedList ==
    List(TRUE,
         <<ListItem(<<Paragraph(<<Text(<<"a">>), Strong(<<Text(<<"b">>)>>)>>)>>),
           ListItem(<<Paragraph(<<Text(<<"c">>),
                                  Emphasis(<<Image(AltScaleRef(1, 1, KeyB), UrlOk,
                                                   NoTitle)>>)>>)>>)>>)

\* a quoted part with a table without rows, a table whose cells carry no
\* metadata, and a table whose second cell carries metadata with the key b
PlainTables ==
    Blockquote(
        <<Table(<<>>),
          Table(<<TableRow(<<TableCell(<<Text(<<"x">>)>>),
                             TableCell(<<Strong(<<TextStr(CellMetadata(KeyA))>>)>>)>>)>>),
          Table(<<TableRow(<<TableCell(<<>>)>>),
                  TableRow(<<TableCell(<<Text(<<"y">>)>>),
                             TableCell(<<TextStr(CellMetadata(KeyB)), Text(<<"z">>)>>)>>)>>)>>)

\* a quoted part with headings of the depths 2, 3 and 5: one with a
\* placeholder, blanks, a bold part and a newline, one without a text
Headings ==
    Blockquote(
        <<Heading(2, <<Text(<<" ">> \o Placeholder(KeyA) \o <<" ", " ">>),
                       Strong(<<Text(<<"b">>)>>),
                       Text(<<"\n", "c">>)>>),
          Heading(3, <<Emphasis(<<Text(<<"e">>)>>)>>),
          Heading(5, <<Text(<<"h">>)>>)>>)

Blocks ==
    {ParaRefA, ParaImageA, ParaMixB, ScenarioBText, ScenarioBImages, HeadingTitle,
     ScenarioAPara, NestedFormat, Quote, ParaFiles, ParaBadFile, Unsupported,
     NestedList(MaxListDepth, FALSE), OrderedList, PlainTables, Headings}

\* the sequences over S of the lengths 0..n
RECURSIVE SeqsUpTo(_, _)
SeqsUpTo(S, n) ==
    IF n = 0 THEN {<<>>}
    ELSE LET shorter == SeqsUpTo(S, n - 1)
         IN  shorter \cup {Append(q, x) : q \in shorter, x \in S}

Documents == {Root(children) : children \in SeqsUpTo(Blocks, MaxBlocks)}

Init ==
    /\ tree \in Documents
    /\ pc = "start"
    /\ stack = <<>>
    /\ collector = NewCollector
    /\ \E base \in BasePaths : emitter = NewEmitter(base)
    /\ docx = NewDocx
    /\ figlog = <<>>
    /\ textlog = <<>>
    /\ rs = RefIdle

Next ==
    \/ InitializeNumbering
    \/ AddDocumentMetadata
    \/ Collector_visit_image
    \/ Collector_visit_table
    \/ Collector_default_container
    \/ Collector_default_leaf
    \/ set_image_refernces
    \/ Emitter_visit_heading
    \/ Emitter_visit_image
    \/ Emitter_visit_text
    \/ Emitter_visit_strong
    \/ Emitter_end_strong
    \/ Emitter_visit_emphasis
    \/ Emitter_end_emphasis
    \/ Emitter_visit_list
    \/ Emitter_end_list
    \/ Emitter_visit_list_item
    \/ Emitter_end_list_item
    \/ Emitter_visit_paragraph
    \/ Emitter_end_paragraph
    \/ Emitter_visit_table
    \/ Emitter_visit_table_row
    \/ Emitter_end_table_row
    \/ Emitter_visit_table_cell
    \/ Emitter_default_container
    \/ Emitter_default_leaf
    \/ Finish

Spec == Init /\ [][Next]_vars

(***************************************************************************)
(* check_references on its own: one call, stepped through its loop, on     *)
(* texts built from pieces and on every reference map over two keys.       *)
(***************************************************************************)
Pieces ==
    {REF_OPEN \o KeyA \o <<"}">>,
     Placeholder(KeyB),
     REF_OPEN \o KeyA \o <<" ", "}">>,
     REF_OPEN \o <<" ", " ">> \o KeyA \o <<" ", " ", "}">>,
     REF_OPEN \o <<" ", " ", " ", " ">> \o KeyA \o <<"}">>,
     REF_OPEN \o <<"x", "}">>,
     REF_OPEN,
     <<"}">>,
     <<" ">>,
     <<"w">>}

RefTexts == {Concat(ps) : ps \in SeqsUpTo(Pieces, MaxPieces)}

RefMaps ==
    {[k \in K |-> IF k = KeyA THEN n ELSE 2] :
        K \in SUBSET {KeyA, KeyB}, n \in {1, 12}}

InitRefs ==
    /\ tree = Root(<<>>)
    /\ pc = "resolve"
    /\ stack = <<>>
    /\ collector = NewCollector
    /\ emitter = NewEmitter(None)
    /\ docx = NewDocx
    /\ figlog = <<>>
    /\ textlog = <<>>
    /\ \E text \in RefTexts, refs \in RefMaps :
          rs = [refs |-> refs, st |-> RefStart(text), ret |-> <<>>]

check_references_loop ==
    /\ pc = "resolve"
    /\ ~rs.st.done
    /\ rs' = [rs EXCEPT !.st = RefLoop(rs.st, rs.refs)]
    /\ UNCHANGED <<tree, pc, stack, collector, emitter, docx, figlog, textlog>>

check_references_return ==
    /\ pc = "resolve"
    /\ rs.st.done
    /\ rs' = [rs EXCEPT !.ret = RefReturn(rs.st)]
    /\ pc' = "returned"
    /\ UNCHANGED <<tree, stack, collector, emitter, docx, figlog, textlog>>

NextRefs == check_references_loop \/ check_references_return

SpecRefs == InitRefs /\ [][NextRefs]_vars

(***************************************************************************)
(* Properties.                                                             *)
(***************************************************************************)
\* the entries of the text log
TextEntries == {textlog[i] : i \in 1..Len(textlog)}

\* C1: every text the Emitter's Text handler has emitted whose source holds
\* the placeholder of a key that pass 1 numbered has "Figure N" with N that
\* number, and no longer the placeholder, whether the text comes before or
\* after the image.
C1_ForwardBackwardResolution ==
    \A e \in TextEntries :
        \A k \in DOMAIN collector.image_references :
            Contains(e.src, Placeholder(k)) =>
                /\ Contains(e.run.text, FigureText(collector.image_references[k]))
                /\ ~Contains(e.run.text, Placeholder(k))

\* a finished run on ParaMixB: "{ref: b}" stands before the image with the
\* key b, "{ref: b} and {ref: a}" after it and before the image with the key a
C1_Witness ==
    /\ pc = "done"
    /\ tree = Root(<<ParaMixB>>)
    /\ collector.image_references[KeyB] = 1
    /\ collector.image_references[KeyA] = 2
    /\ textlog[1].run.text = FigureText(1)
    /\ textlog[2].run.text = FigureText(1) \o AndWord \o FigureText(2)

\* C2: on the document of scenario B (a paragraph with "{ref: fig-a}", then
\* an image whose alt text has a ref field "fig-a" and no scale field, then
\* an image whose alt text is the empty object) pass 1 gives fig-a the
\* figure number 1 and the placeholder is emitted as "Figure 1".
C2_ScenarioB ==
    (pc = "done" /\ tree = Root(<<ScenarioBText, ScenarioBImages>>)) =>
        /\ KeyFigA \in DOMAIN collector.image_references
        /\ collector.image_references[KeyFigA] = 1
        /\ textlog[1].run.text = FigureText(1)

\* newlines to spaces, then every run of whitespace to one space; nothing
\* is cut off at the ends
RECURSIVE CollapseWhitespace(_)
CollapseWhitespace(s) ==
    IF s = <<>> THEN <<>>
    ELSE IF Head(s) \in Whitespace
    THEN LET rest == CollapseWhitespace(Tail(s))
         IN  IF rest # <<>> /\ Head(rest) = " " THEN rest ELSE <<" ">> \o rest
    ELSE <<Head(s)>> \o CollapseWhitespace(Tail(s))

\* the texts and styles of the runs the Text handler has emitted, in order
EmittedRuns ==
    [i \in 1..Len(textlog) |->
        <<textlog[i].run.text, textlog[i].run.bold, textlog[i].run.italic>>]

ScenarioARuns ==
    <<<<<<"T", "h", "i", "s", " ", "i", "s", " ">>, FALSE, FALSE>>,
      <<<<"b", "o", "l", "d">>, TRUE, FALSE>>,
      <<AndWord, FALSE, FALSE>>,
      <<<<"i", "t", "a", "l", "i", "c">>, FALSE, TRUE>>,
      <<<<".">>, FALSE, FALSE>>>>

\* C3: the run the Text handler emits for a text without a placeholder is
\* the text with newlines turned into spaces and runs of whitespace
\* collapsed to one space, a space at either end kept; and the runs of
\* "This is **bold** and *italic*." are "This is ", "bold" (bold), " and ",
\* "italic" (italic), "." in that order.
C3_TextNormalization ==
    /\ \A e \in TextEntries :
          ~Contains(e.src, REF_OPEN) => e.run.text = CollapseWhitespace(e.src)
    /\ (pc = "done" /\ tree = Root(<<ScenarioAPara>>)) => EmittedRuns = ScenarioARuns

\* the number pass 1 had at hand when it first met an image with the key k
FirstNumber(k) ==
    figlog[Min({i \in 1..Len(figlog) : figlog[i].key = k})].number

FigureKeys == {figlog[i].key : i \in 1..Len(figlog)}

\* C4: the figure map holds, for every key an image carried, the number of
\* the first image with that key; meeting a later image with the key
\* neither changes it nor stops pass 1; and every emitted text whose source
\* holds the placeholder of the key shows the first image's number.
C4_DuplicateKeysFirstWins ==
    /\ DOMAIN collector.image_references = FigureKeys
    /\ \A k \in FigureKeys :
          /\ collector.image_references[k] = FirstNumber(k)
          /\ \A e \in TextEntries :
                Contains(e.src, Placeholder(k)) =>
                    Contains(e.run.text, FigureText(FirstNumber(k)))
    /\ (pc = "pass1" /\ stack # <<>>) =>
          ENABLED (Collector_visit_image \/ Collector_visit_table
                   \/ Collector_default_container \/ Collector_default_leaf)

\* a finished run in which the key a was carried by the second and by the
\* third numbered image, and a text that refers to a shows "Figure 2"
C4_Witness ==
    /\ pc = "done"
    /\ Len(figlog) = 3
    /\ figlog[2].key = KeyA /\ figlog[2].number = 2
    /\ figlog[3].key = KeyA /\ figlog[3].number = 3
    /\ collector.image_count = 3
    /\ \E e \in TextEntries :
          /\ Contains(e.src, Placeholder(KeyA))
          /\ Contains(e.run.text, FigureText(2))

\* C5: a placeholder whose key pass 1 registered is emitted as what the
\* two-namespace lookup gives for the key: "Figure N" for a key of the
\* figure namespace, "Table N" for a key that is only in the table
\* namespace.
C5_TwoNamespaces ==
    \A e \in TextEntries :
        \A k \in DOMAIN collector.image_references \cup DOMAIN collector.table_references :
            Contains(e.src, Placeholder(k)) =>
                Contains(e.run.text, CollectorGet(collector, k).key)

\* the text with its placeholders resolved one after the other, from left
\* to right, each on the text as it was given: a placeholder whose key is
\* in the map gives "Figure N", any other stays as it is
RECURSIVE ExpectedResolve(_, _)
ExpectedResolve(text, refs) ==
    LET m == FindAt(text, 0)
    IN  IF ~m.found THEN text
        ELSE LET token == SubSeq(text, m.start + 1, m.end)
                 key == Group1(text, m.start)
                 shown == IF key \in DOMAIN refs THEN FigureText(refs[key]) ELSE token
             IN  SubSeq(text, 1, m.start) \o shown
                 \o ExpectedResolve(SubSeq(text, m.end + 1, Len(text)), refs)

\* C6: the cursor of check_references stays within the string it scans
\* and moves forward with every token, so the scan goes on after a token
\* with an unknown key; and what the call returns is the text in which
\* each placeholder with an unknown key stands character for character and
\* each placeholder with a known key, those after an unknown one included,
\* is replaced.
C6_UnresolvedPlaceholderKept ==
    /\ pc = "resolve" =>
          /\ rs.st.start_idx <= Len(rs.st.result)
          /\ ~rs.st.done =>
                LET after == RefLoop(rs.st, rs.refs)
                IN  after.done \/ after.start_idx > rs.st.start_idx
    /\ pc = "returned" => rs.ret = ExpectedResolve(rs.st.text, rs.refs)

\* a call on "{ref:x}{ref:a}" with a map that holds a and not x
C6_Witness ==
    /\ pc = "returned"
    /\ rs.st.text = REF_OPEN \o <<"x", "}">> \o REF_OPEN \o KeyA \o <<"}">>
    /\ KeyA \in DOMAIN rs.refs
    /\ rs.ret = REF_OPEN \o <<"x", "}">> \o FigureText(rs.refs[KeyA])

\* the text holds a token: the opening "{ref:" and a "}" somewhere after it
HasToken(text) ==
    \E i \in 1..Len(text) :
        /\ i + Len(REF_OPEN) <= Len(text)
        /\ SubSeq(text, i, i + Len(REF_OPEN) - 1) = REF_OPEN
        /\ \E j \in (i + Len(REF_OPEN))..Len(text) : text[j] = "}"

\* C7: check_references returns a text without a token as it was given,
\* and check_references of what it returned is what it returned.
C7_FastPathAndIdempotence ==
    pc = "returned" =>
        /\ ~HasToken(rs.st.text) => rs.ret = rs.st.text
        /\ check_references(rs.ret, rs.refs) = rs.ret

\* a call that replaced a token whose replacement is shorter than the token
\* and that is followed at once by another token with a known key
C7_Witness ==
    /\ pc = "returned"
    /\ rs.st.text = REF_OPEN \o <<" ", " ", " ", " ">> \o KeyA \o <<"}">>
                    \o REF_OPEN \o KeyA \o <<"}">>
    /\ KeyA \in DOMAIN rs.refs
    /\ rs.ret = FigureText(rs.refs[KeyA]) \o FigureText(rs.refs[KeyA])

\* the placeholder of the key k written with whitespace on either side
TrimForms(k) ==
    {REF_OPEN \o k \o <<"}">>,
     REF_OPEN \o <<" ">> \o k \o <<"}">>,
     REF_OPEN \o k \o <<" ", "}">>,
     REF_OPEN \o <<" ", " ">> \o k \o <<" ", " ", "}">>}

\* C8: for a key k of the map, each of "{ref:k}", "{ref: k}", "{ref:k }",
\* "{ref:  k  }" is looked up under k and gives the same replacement.
C8_KeyTrimming ==
    pc = "returned" =>
        \A k \in DOMAIN rs.refs :
            rs.st.text \in TrimForms(k) => rs.ret = FigureText(rs.refs[k])

\* the number of the pending returns of a formatting handler
Pending(op) == Cardinality({i \in 1..Len(stack) : stack[i].op = op})

\* C9: the bold depth and the italic depth are 0 before pass 2 and 0 when
\* it has returned on the root; within pass 2 each depth is the number of
\* the handlers of its kind that have not returned yet; and a pop of a
\* counter that is 0 gives 0.
C9_BalancedFormatting ==
    /\ pc \in {"start", "metadata", "pass1", "done"} =>
          emitter.strong_state = 0 /\ emitter.em_state = 0
    /\ pc = "pass2" =>
          /\ emitter.strong_state = Pending("end_strong")
          /\ emitter.em_state = Pending("end_emphasis")
    /\ StackCounterPop(StackCounterNew) = StackCounterNew

\* a finished run that emitted a text at the bold depth 2 and a text that
\* is bold and italic
C9_Witness ==
    /\ pc = "done"
    /\ tree = Root(<<NestedFormat>>)
    /\ EmittedRuns = <<<<<<"x">>, TRUE, FALSE>>, <<<<"y">>, TRUE, FALSE>>,
                       <<<<"z">>, TRUE, TRUE>>, <<<<"w">>, FALSE, FALSE>>>>
    /\ emitter.strong_state = 0 /\ emitter.em_state = 0

\* C10: the indent level of every numbered paragraph of the document is a
\* level that the numbering it names defines (0 or 1), items three and
\* more lists deep included.
C10_IndentLevelDefined ==
    \A i \in 1..Len(docx.blocks) :
        docx.blocks[i].has_numbering =>
            /\ docx.blocks[i].indent_level \in DefinedLevels(docx, docx.blocks[i].numbering_id)
            /\ docx.blocks[i].indent_level \in {0, 1}

\* locating, reading or decoding the file of the image fails
ImageFails(base, url) ==
    \/ ~base.some
    \/ ~FileAt(url).exists
    \/ ~FileAt(url).readable
    \/ ~FileAt(url).decodable

\* the paragraph is centered and holds one italic text run
IsPlaceholderParagraph(p) ==
    /\ p.align = "Center"
    /\ Len(p.runs) = 1
    /\ p.runs[1].kind = "text"
    /\ p.runs[1].italic

\* C11: whenever the Emitter is about to handle an image whose file cannot
\* be located, read or decoded, every outcome of handle_image is a return
\* that appends exactly one centered italic placeholder paragraph (or an
\* image block and its caption) to the blocks so far, and the conversion
\* never stops at such an image.
C11_ImageFailureDegrades ==
    /\ (pc = "pass2" /\ TopIs("Image")) =>
          LET image == Head(stack).node
              n == Len(docx.blocks)
          IN  ImageFails(emitter.base_path, image.url) =>
                \A out \in handle_image(emitter.base_path, docx, image.url, image.alt,
                                        image.title, FigureNumber(emitter, image.alt)) :
                    /\ ~out.panic
                    /\ SubSeq(out.docx.blocks, 1, n) = docx.blocks
                    /\ \/ /\ Len(out.docx.blocks) = n + 1
                          /\ IsPlaceholderParagraph(out.docx.blocks[n + 1])
                       \/ /\ Len(out.docx.blocks) = n + 2
                          /\ out.docx.blocks[n + 1].runs[1].kind = "image"
                          /\ IsPlaceholderParagraph(out.docx.blocks[n + 2])
    /\ pc = "panicked" => ~ImageFails(emitter.base_path, Head(stack).node.url)

\* the kinds process_node dispatches on
NodeKinds ==
    {"Root", "Paragraph", "Heading", "Text", "Strong", "Emphasis", "List", "ListItem",
     "Image", "Blockquote", "FootnoteDefinition", "MdxJsxFlowElement", "MdxjsEsm",
     "Toml", "Yaml", "Break", "InlineCode", "InlineMath", "Delete",
     "MdxTextExpression", "FootnoteReference", "Html", "ImageReference",
     "MdxJsxTextElement", "Link", "LinkReference", "Code", "Math",
     "MdxFlowExpression", "Table", "ThematicBreak", "TableRow", "TableCell",
     "Definition"}

\* the number of the elements of a sequence that satisfy a test
CountIn(seq, Test(_)) == Cardinality({i \in 1..Len(seq) : Test(seq[i])})

IsParagraphNode(n) == n.kind = "Paragraph"
IsIndentedBlock(p) == p.indent = "Left720Right720"

\* the sources of the texts the Text handler has emitted, in order
EmittedSources == [i \in 1..Len(textlog) |-> textlog[i].src]

\* C12: pass 1 can take a step on a node of any kind, and so can pass 2 on
\* a node of any kind the Emitter has no visitor of its own for; the
\* conversion stops early at an image only; when it is done every
\* paragraph at the top level of the tree has given a block; and of the
\* tree with all the kinds without a visitor the paragraphs before and
\* after them are emitted.
C12_UnsupportedKindsNeverAbort ==
    /\ (pc \in {"pass1", "pass2"} /\ stack # <<>> /\ Head(stack).op = "node") =>
          Head(stack).node.kind \in NodeKinds
    /\ (pc = "pass1" /\ stack # <<>>) =>
          ENABLED (Collector_visit_image \/ Collector_visit_table
                   \/ Collector_default_container \/ Collector_default_leaf)
    /\ (pc = "pass2" /\ stack # <<>> /\ Head(stack).op = "node"
          /\ Head(stack).node.kind \notin EmitterOverrides) =>
          ENABLED (Emitter_default_container \/ Emitter_default_leaf)
    /\ pc = "panicked" => TopIs("Image")
    /\ pc = "done" =>
          /\ CountIn(docx.blocks, IsIndentedBlock) >= CountIn(tree.children, IsParagraphNode)
          /\ tree = Root(<<Unsupported>>) =>
                /\ EmittedSources = <<<<"u">>, <<"v">>, <<"k">>, <<"w">>>>
                /\ CountIn(docx.blocks, IsIndentedBlock) = 2

\* a finished run on the tree with the kinds without a visitor followed by
\* a paragraph: the paragraphs inside and the one after are emitted
C12_Witness ==
    /\ pc = "done"
    /\ tree = Root(<<Unsupported, ScenarioAPara>>)
    /\ CountIn(docx.blocks, IsIndentedBlock) = 3
    /\ Len(textlog) = 9

\* the kinds that own children and have a visitor in neither implementor
PassThroughKinds ==
    {"Blockquote", "Link", "Delete", "FootnoteDefinition", "LinkReference",
     "MdxJsxFlowElement", "MdxJsxTextElement"}

\* the values of the Text nodes at or under n to which a path of
\* pass-through kinds, paragraphs and formatting spans leads
RECURSIVE TextsThrough(_)
TextsThrough(n) ==
    IF n.kind = "Text" THEN {Chars(n.value)}
    ELSE IF n.kind \in PassThroughKinds \cup {"Root", "Paragraph", "Strong", "Emphasis"}
    THEN UNION {TextsThrough(n.children[i]) : i \in 1..Len(n.children)}
    ELSE {}

\* C13: when the conversion is done, every Text node that stands under
\* pass-through kinds (block quote, link, delete, footnote definition, link
\* reference, mdx element), paragraphs and formatting spans only has been
\* reached by the Text handler of the Emitter.
C13_ContainerPassThrough ==
    pc = "done" =>
        \A t \in TextsThrough(tree) : \E e \in TextEntries : e.src = t

\* C14: a key of the table namespace keeps the number it was given first:
\* no step of pass 1, in particular no later table whose cells carry the
\* key again, changes the number the key maps to.
C14_TableFirstWriterWins ==
    [][\A k \in DOMAIN collector.table_references :
           /\ k \in DOMAIN collector'.table_references
           /\ collector'.table_references[k] = collector.table_references[k]]_vars

\* the List nodes whose visit has begun and not ended, innermost first
OpenLists == SelectSeq(stack, LAMBDA t : t.op = "end_list")

KindOfList(list) == IF list.ordered THEN "Ordered" ELSE "Unordered"

\* C15: within pass 2 the list stack of the Emitter has one entry per List
\* node that is being visited, outermost first, each the kind of its list,
\* so its length is the nesting depth and its top the kind of the innermost
\* list; before pass 2 and when pass 2 has returned the stack is empty.
C15_ListStackInvariant ==
    /\ pc = "pass2" =>
          /\ Len(emitter.list_type) = Len(OpenLists)
          /\ \A i \in 1..Len(OpenLists) :
                emitter.list_type[Len(OpenLists) + 1 - i] = KindOfList(OpenLists[i].node)
    /\ pc \in {"start", "metadata", "pass1", "done"} => emitter.list_type = <<>>

\* the Emitter is three lists deep and has emitted the texts of the two
\* items above
C15_Witness ==
    /\ pc = "pass2"
    /\ emitter.list_type = <<"Unordered", "Ordered", "Unordered">>
    /\ Len(OpenLists) = 3
    /\ Len(textlog) = 2

\* C16: the step of pass 2 on a list item while the list stack is empty
\* ends the visit of the item at once: no child of the item is taken up,
\* and the output blocks, the Emitter (depth counters, list stack,
\* paragraph accumulator), the emitted texts and the course of the
\* conversion stay as they are.
C16_ListItemOutsideList ==
    [][(pc = "pass2" /\ TopIs("ListItem") /\ emitter.list_type = <<>>) =>
          /\ stack' = Tail(stack)
          /\ docx' = docx
          /\ emitter' = emitter
          /\ textlog' = textlog
          /\ pc' = pc]_vars

\* pass 2 has returned on the tree whose last node is a list item in no
\* list: the text "s" of the item was not emitted
C16_Witness ==
    /\ pc = "pass2"
    /\ stack = <<>>
    /\ tree = Root(<<Quote>>)
    /\ textlog # <<>>
    /\ \A e \in TextEntries : e.src # <<"s">>

\* the document declares the numbering with this id exactly once, and with
\* it one abstract numbering of the same id
DeclaredOnce(d, id) ==
    /\ CountIn(d.numberings, LAMBDA n : n.id = id) = 1
    /\ CountIn(d.abstract_numberings, LAMBDA a : a.id = id) = 1

\* C17: before the first step of the conversion the document has neither
\* styles nor blocks; from the first step on it has the two numbering
\* styles (bullet, id 1, and numbered, id 2), each exactly once and nothing
\* else, so they are there before any paragraph is appended; and every
\* paragraph of the output that names a numbering names one of the two.
C17_NumberingBeforeContent ==
    /\ pc = "start" =>
          docx.blocks = <<>> /\ docx.numberings = <<>> /\ docx.abstract_numberings = <<>>
    /\ pc # "start" =>
          /\ DeclaredOnce(docx, 1) /\ DeclaredOnce(docx, 2)
          /\ Len(docx.numberings) = 2 /\ Len(docx.abstract_numberings) = 2
    /\ \A i \in 1..Len(docx.blocks) :
          docx.blocks[i].has_numbering =>
              /\ docx.blocks[i].numbering_id \in {1, 2}
              /\ DeclaredOnce(docx, docx.blocks[i].numbering_id)

\* a finished conversion whose output has a paragraph of a bullet item and
\* a paragraph of a numbered item
C17_Witness ==
    /\ pc = "done"
    /\ \E i, j \in 1..Len(docx.blocks) :
          /\ docx.blocks[i].has_numbering /\ docx.blocks[i].numbering_id = 1
          /\ docx.blocks[j].has_numbering /\ docx.blocks[j].numbering_id = 2

\* the block a step has appended to the output
AppendedBlock == docx'.blocks[Len(docx'.blocks)]

\* C18: the paragraph that a list item appends when its visit ends, the
\* item having been visited with a non-empty list stack, names the
\* numbering 2 if the innermost list is ordered and 1 otherwise, at the
\* indent level of the stack depth minus one, also when the item holds a
\* nested list.
C18_ListItemNumbering ==
    [][(pc = "pass2" /\ TopIsEnd("end_list_item")) =>
          /\ Len(docx'.blocks) = Len(docx.blocks) + 1
          /\ AppendedBlock.has_numbering
          /\ AppendedBlock.numbering_id =
                (IF emitter.list_type[Len(emitter.list_type)] = "Ordered" THEN 2 ELSE 1)
          /\ AppendedBlock.indent_level = Len(emitter.list_type) - 1]_vars

\* the values of the Text nodes among inline nodes, formatting spans
\* entered, in document order
RECURSIVE InlineTexts(_)
InlineTexts(children) ==
    IF children = <<>> THEN <<>>
    ELSE LET n == Head(children)
         IN  (IF n.kind = "Text" THEN <<Chars(n.value)>>
              ELSE IF n.kind \in {"Strong", "Emphasis"} THEN InlineTexts(n.children)
              ELSE <<>>)
             \o InlineTexts(Tail(children))

\* the values of the texts of the Paragraph children of a list item
RECURSIVE ItemTexts(_)
ItemTexts(children) ==
    IF children = <<>> THEN <<>>
    ELSE (IF Head(children).kind = "Paragraph"
          THEN InlineTexts(Head(children).children) ELSE <<>>)
         \o ItemTexts(Tail(children))

\* C19: the paragraph that a list item appends when its visit ends holds,
\* in order, a run for every text of the item's Paragraph children, also
\* when a later child of the item is a nested list.
C19_ListItemContentKept ==
    [][(pc = "pass2" /\ TopIsEnd("end_list_item")) =>
          LET texts == ItemTexts(Head(stack).node.children)
          IN  /\ Len(AppendedBlock.runs) = Len(texts)
              /\ \A i \in 1..Len(texts) :
                    AppendedBlock.runs[i].text = NormalizeText(texts[i])]_vars

\* the run the latest call of the Text handler has emitted
LatestRun == textlog'[Len(textlog')].run

\* C20: the run a call of the Text handler emits is bold exactly when a
\* Strong whose visit has not ended encloses the text and italic exactly
\* when an Emphasis whose visit has not ended encloses it, however many of
\* them are open.
C20_StylingFollowsDepth ==
    [][Len(textlog') > Len(textlog) =>
          /\ LatestRun.bold = (Pending("end_strong") > 0)
          /\ LatestRun.italic = (Pending("end_emphasis") > 0)]_vars

\* in Strong[Strong["x"], "y"] the inner Strong has closed and the outer is
\* open: "x" at the depth 2 and "y" at the depth 1 are both bold
C20_Witness ==
    /\ pc = "pass2"
    /\ Len(textlog) = 2
    /\ textlog[1].src = <<"x">> /\ textlog[1].run.bold
    /\ textlog[2].src = <<"y">> /\ textlog[2].run.bold
    /\ emitter.strong_state = 1
    /\ Pending("end_strong") = 1

\* s begins with t
StartsWith(s, t) == Len(t) <= Len(s) /\ SubSeq(s, 1, Len(t)) = t

RECURSIVE ImageKeys(_)
ImageKeys(nodes) ==
    IF nodes = <<>> THEN <<>>
    ELSE LET n == Head(nodes)
             res == DecodeImageModifiers(n.alt)
         IN  (IF n.kind = "Image"
              THEN (IF res.ref.some THEN <<res.ref.key>> ELSE <<>>)
              ELSE IF n.kind \in {"Root", "Paragraph", "Strong", "Emphasis", "List",
                                  "ListItem", "Blockquote", "Link"}
              THEN ImageKeys(n.children)
              ELSE <<>>)
             \o ImageKeys(Tail(nodes))

\* C23: the figure counter is the number of the ref-carrying images pass 1
\* has met, each of them, one with a key met before included, having been
\* given the next number; the number of a key is the position of the first
\* image with it among the ref-carrying images; numbers of different keys
\* differ; and when pass 1 has returned the keys it met are those of the
\* tree in document order, so the map is determined by the tree.
C23_FigureNumbering ==
    /\ collector.image_count = Len(figlog)
    /\ \A i \in 1..Len(figlog) : figlog[i].number = i
    /\ \A k \in DOMAIN collector.image_references :
          /\ k \in FigureKeys
          /\ collector.image_references[k] = Min({i \in 1..Len(figlog) : figlog[i].key = k})
    /\ \A k1, k2 \in DOMAIN collector.image_references :
          k1 # k2 => collector.image_references[k1] # collector.image_references[k2]
    /\ pc \in {"pass2", "done"} =>
          /\ Len(figlog) = Len(ImageKeys(<<tree>>))
          /\ \A i \in 1..Len(figlog) : figlog[i].key = ImageKeys(<<tree>>)[i]

\* pass 1 has met the key b twice and then the key a: a has the number 3
C23_Witness ==
    /\ pc = "pass2"
    /\ Len(figlog) = 3
    /\ figlog[1].key = KeyB /\ figlog[2].key = KeyB /\ figlog[3].key = KeyA
    /\ collector.image_references = [k \in {KeyA, KeyB} |-> IF k = KeyA THEN 3 ELSE 1]
    /\ collector.image_count = 3

\* the Table nodes at or under the nodes, in document order, tables not
\* entered
RECURSIVE TablesOf(_)
TablesOf(nodes) ==
    IF nodes = <<>> THEN <<>>
    ELSE LET n == Head(nodes)
         IN  (IF n.kind = "Table" THEN <<n>>
              ELSE IF n.kind \in {"Root", "Paragraph", "Strong", "Emphasis", "List",
                                  "ListItem", "Blockquote", "Link"}
              THEN TablesOf(n.children)
              ELSE <<>>)
             \o TablesOf(Tail(nodes))

\* the keys of the cells of a table whose first child is a text that
\* decodes as caption and ref
MetadataKeys(table) ==
    {k \in {KeyA, KeyB, KeyT} :
        \E r \in 1..Len(table.children) :
            \E c \in 1..Len(table.children[r].children) :
                LET cell == table.children[r].children[c]
                IN  /\ cell.children # <<>>
                    /\ cell.children[1].kind = "Text"
                    /\ cell.children[1].value = CellMetadata(k)}

\* C24: when pass 1 has returned, the table counter is the number of the
\* Table nodes of the tree, those without rows or without metadata
\* included; the keys of the table namespace are the keys that the cells
\* of the tables carry as the metadata of their first child; and the
\* number of a key is the position, among all the tables, of a table that
\* carries it.
C24_TableNumbering ==
    pc \in {"pass2", "done"} =>
        LET tables == TablesOf(<<tree>>)
        IN  /\ collector.table_count = Len(tables)
            /\ DOMAIN collector.table_references =
                  UNION {MetadataKeys(tables[i]) : i \in 1..Len(tables)}
            /\ \A k \in DOMAIN collector.table_references :
                  /\ collector.table_references[k] \in 1..Len(tables)
                  /\ k \in MetadataKeys(tables[collector.table_references[k]])

\* pass 1 has returned on three tables of which only the third carries
\* metadata: its key has the number 3
C24_Witness ==
    /\ pc = "pass2"
    /\ tree = Root(<<PlainTables>>)
    /\ collector.table_count = 3
    /\ collector.table_references = [k \in {KeyB} |-> 3]

\* floor(d * 914400 / 220), with the common factor 20 of the two constants
\* taken out first
ExactEmu(d) == (d * (EMUS_PER_INCH \div 20)) \div (PPI \div 20)

\* C25: for an image file whose dimensions are decoded, the conversion of
\* each axis from pixels to EMU neither wraps nor aborts and gives
\* floor(d * 914400 / 220), and the image block has these sizes times the
\* scale.
C25_EmuConversionExact ==
    (pc = "pass2" /\ TopIs("Image") /\ emitter.base_path.some
        /\ FileAt(Head(stack).node.url).decodable) =>
        LET image == Head(stack).node
            file == FileAt(image.url)
            scale == DecodeImageModifiers(image.alt).scale
            n == Len(docx.blocks)
        IN  /\ EmuOfPixels(file.width) =
                  [overflow |-> FALSE, value |-> ExactEmu(file.width)]
            /\ EmuOfPixels(file.height) =
                  [overflow |-> FALSE, value |-> ExactEmu(file.height)]
            /\ \A out \in handle_image(emitter.base_path, docx, image.url, image.alt,
                                       image.title, FigureNumber(emitter, image.alt)) :
                  /\ ~out.panic
                  /\ out.docx.blocks[n + 1].runs[1].width =
                        ScaleDim(ExactEmu(file.width), scale)
                  /\ out.docx.blocks[n + 1].runs[1].height =
                        ScaleDim(ExactEmu(file.height), scale)

\* the title if it is there and not empty, else the alt text
TitleOrAlt(image) ==
    IF image.title.some /\ Chars(image.title.s) # <<>>
    THEN Chars(image.title.s) ELSE Chars(image.alt)

\* C26: a step that shows an image appends the image block and directly
\* after it the caption, which is "Figure N: T" with T the title if that is
\* not empty and else the alt text if that is not empty, and the bare
\* "Figure N" only when both are empty.
C26_CaptionText ==
    [][(pc = "pass2" /\ TopIs("Image") /\ Len(docx'.blocks) = Len(docx.blocks) + 2) =>
          LET image == Head(stack).node
              n == Len(docx.blocks)
              number == FigureText(FigureNumber(emitter, image.alt))
          IN  /\ docx'.blocks[n + 1].runs[1].kind = "image"
              /\ docx'.blocks[n + 2].runs[1].text =
                    (IF TitleOrAlt(image) # <<>>
                     THEN number \o <<":", " ">> \o TitleOrAlt(image)
                     ELSE number)]_vars

\* the values of the Text nodes among the children, one after the other
DirectText(children) ==
    Concat([i \in 1..Len(children) |->
               IF children[i].kind = "Text" THEN Chars(children[i].value) ELSE <<>>])

SizeOfDepth(depth) ==
    IF depth = 1 THEN 36 ELSE IF depth = 2 THEN 28 ELSE IF depth = 3 THEN 24 ELSE 20

\* C27: the step of the Emitter on a Heading appends exactly one paragraph
\* of one bold run whose text is the values of the direct Text children of
\* the heading as they are (other children give nothing, placeholders and
\* whitespace stay) and whose size is 36, 28, 24 for the depths 1, 2, 3 and
\* 20 for any other; the Emitter and the emitted texts stay as they are.
C27_HeadingEmission ==
    [][(pc = "pass2" /\ TopIs("Heading")) =>
          LET heading == Head(stack).node
              n == Len(docx.blocks)
          IN  /\ Len(docx'.blocks) = n + 1
              /\ SubSeq(docx'.blocks, 1, n) = docx.blocks
              /\ Len(docx'.blocks[n + 1].runs) = 1
              /\ docx'.blocks[n + 1].runs[1].bold
              /\ docx'.blocks[n + 1].runs[1].text = DirectText(heading.children)
              /\ docx'.blocks[n + 1].runs[1].size = SizeOfDepth(heading.depth)
              /\ emitter' = emitter
              /\ textlog' = textlog
              /\ stack' = Tail(stack)]_vars

\* a finished conversion of the three headings: the first keeps the
\* placeholder, the blanks and the newline and drops the bold part, the
\* second has an empty text
C27_Witness ==
    /\ pc = "done"
    /\ tree = Root(<<Headings>>)
    /\ \E i \in 1..Len(docx.blocks) :
          /\ i + 2 = Len(docx.blocks)
          /\ docx.blocks[i].runs[1].text =
                <<" ">> \o Placeholder(KeyA) \o <<" ", " ", "\n", "c">>
          /\ docx.blocks[i].runs[1].size = 28
          /\ docx.blocks[i + 1].runs[1].text = <<>>
          /\ docx.blocks[i + 1].runs[1].size = 24
          /\ docx.blocks[i + 2].runs[1].size = 20

\* the number of the tokens of the text, taken from left to right, each
\* after the end of the one before
RECURSIVE TokensFrom(_, _)
TokensFrom(text, start) ==
    LET m == FindAt(text, start)
    IN  IF ~m.found THEN 0 ELSE 1 + TokensFrom(text, m.end)

\* what stands in s after the offset p
After(s, p) == SubSeq(s, p + 1, Len(s))

\* C28: the loop of check_references ends: the tokens that stand after the
\* cursor become one fewer with every iteration and the loop is left when
\* none stands there.  Every iteration moves the cursor strictly forward,
\* to the end of the inserted "Figure N" when the key is known and to the
\* end of the token when it is not; what stands before the cursor is never
\* changed again and what stands after it is what stood after the token;
\* and the iterations are never more than the tokens of the text given.
C28_ResolverTerminates ==
    [][check_references_loop =>
          LET m == FindAt(rs.st.result, rs.st.start_idx)
              key == Group1(rs.st.result, m.start)
              cursor == rs'.st.start_idx
              left == TokensFrom(rs.st.result, rs.st.start_idx)
          IN  /\ rs'.st.done <=> left = 0
              /\ rs'.st.iters <= TokensFrom(rs.st.text, 0)
              /\ ~rs'.st.done =>
                    /\ TokensFrom(rs'.st.result, cursor) = left - 1
                    /\ cursor > rs.st.start_idx
                    /\ cursor <= Len(rs'.st.result)
                    /\ rs'.st.iters = rs.st.iters + 1
                    /\ SubSeq(rs'.st.result, 1, rs.st.start_idx)
                          = SubSeq(rs.st.result, 1, rs.st.start_idx)
                    /\ After(rs'.st.result, cursor) = After(rs.st.result, m.end)
                    /\ IF key \in DOMAIN rs.refs
                       THEN SubSeq(rs'.st.result, m.start + 1, cursor)
                               = FigureText(rs.refs[key])
                       ELSE cursor = m.end /\ rs'.st.result = rs.st.result]_vars

\* a returned call on "{ref: b}{ref:x}{ref:a}" with both keys known: three
\* iterations, two replacements around a token that is kept
C28_Witness ==
    /\ pc = "returned"
    /\ rs.st.text = Placeholder(KeyB) \o REF_OPEN \o <<"x", "}">>
                    \o REF_OPEN \o KeyA \o <<"}">>
    /\ DOMAIN rs.refs = {KeyA, KeyB}
    /\ rs.st.iters = 3
    /\ rs.ret = FigureText(rs.refs[KeyB]) \o REF_OPEN \o <<"x", "}">>
                \o FigureText(rs.refs[KeyA])

\* the block is one that handle_image appends: an image, or a centered
\* caption or placeholder
IsImageBlock(p) ==
    /\ Len(p.runs) = 1
    /\ p.runs[1].kind = "image" \/ p.align = "Center"

\* C29: while a paragraph is being visited, an image among its children
\* appends its blocks (the image and its caption, or a placeholder) to the
\* output at once and leaves the runs collected so far where they are; the
\* end of the visit appends the paragraph with these runs as one block
\* after them, also when it has no run; and no other step of the visit
\* appends a block.
C29_InlineImageOrder ==
    [][(pc = "pass2" /\ pc' = "pass2") =>
          LET n == Len(docx.blocks)
              open == Pending("end_paragraph")
          IN  /\ TopIs("Paragraph") =>
                    /\ docx' = docx
                    /\ Pending("end_paragraph")' = open + 1
              /\ (TopIs("Image") /\ open > 0) =>
                    /\ Len(docx'.blocks) \in {n + 1, n + 2}
                    /\ SubSeq(docx'.blocks, 1, n) = docx.blocks
                    /\ \A i \in (n + 1)..Len(docx'.blocks) :
                          IsImageBlock(docx'.blocks[i])
                    /\ emitter'.paragraph = emitter.paragraph
                    /\ Pending("end_paragraph")' = open
              /\ TopIsEnd("end_paragraph") =>
                    /\ docx'.blocks = Append(docx.blocks, emitter.paragraph)
                    /\ IsIndentedBlock(emitter.paragraph)
                    /\ Pending("end_paragraph")' = open - 1
              /\ (open > 0 /\ ~TopIs("Image") /\ ~TopIsEnd("end_paragraph")) =>
                    /\ docx' = docx
                    /\ Pending("end_paragraph")' = open]_vars

\* a finished conversion of a paragraph with two texts and two images and
\* of a paragraph that is one image: the placeholder of the first image,
\* the second image and its caption, the paragraph with the two texts, then
\* the image of the second paragraph, its caption and a paragraph of no run
C29_Witness ==
    /\ pc = "done"
    /\ tree = Root(<<ParaMixB, ParaImageA>>)
    /\ LET n == Len(docx.blocks)
       IN  /\ n >= 7
           /\ IsPlaceholderParagraph(docx.blocks[n - 6])
           /\ docx.blocks[n - 5].runs[1].kind = "image"
           /\ IsImageBlock(docx.blocks[n - 4])
           /\ IsIndentedBlock(docx.blocks[n - 3])
           /\ Len(docx.blocks[n - 3].runs) = 2
           /\ docx.blocks[n - 2].runs[1].kind = "image"
           /\ IsImageBlock(docx.blocks[n - 1])
           /\ IsIndentedBlock(docx.blocks[n])
           /\ docx.blocks[n].runs = <<>>

\* the Emitter without its row buffer and its cell buffer
WithoutTableBuffers(e) == [e EXCEPT !.table = <<>>, !.table_cells = <<>>]

\* C30: a step of the Emitter on a Table, on a TableRow, at the end of a
\* TableRow or on a TableCell appends no block, adds no run to the
\* paragraph being collected and emits no text: of the Emitter only the row
\* buffer and the cell buffer change; and the step on a TableCell leaves
\* the children of the cell unvisited.
C30_TablesLeaveOutputUnchanged ==
    [][(pc = "pass2" /\ (TopIs("Table") \/ TopIs("TableRow") \/ TopIs("TableCell")
                          \/ TopIsEnd("end_table_row"))) =>
          /\ docx' = docx
          /\ textlog' = textlog
          /\ emitter'.paragraph = emitter.paragraph
          /\ WithoutTableBuffers(emitter') = WithoutTableBuffers(emitter)
          /\ pc' = "pass2"
          /\ TopIs("TableCell") => stack' = Tail(stack)]_vars

\* a finished conversion of the three tables, whose cells hold texts: no
\* text was emitted, no block of the output holds a text run, and the row
\* buffer holds the two rows of the last table
C30_Witness ==
    /\ pc = "done"
    /\ tree = Root(<<PlainTables>>)
    /\ textlog = <<>>
    /\ CountIn(docx.blocks, IsIndentedBlock) = 0
    /\ Len(emitter.table) = 2
    /\ emitter.table_cells = <<>>

====
